---- MODULE Spec2Model ----
(***************************************************************************)
(* A model of the CARLA dataset tools of OpenPCDet_occfm:                  *)
(*   tools/shift_carla.py              the spatial corrector (ShiftSpec;   *)
(*                                     ResumeSpec with interrupted runs,   *)
(*                                     MarkerSpec with close offsets)      *)
(*   tools/create_carla_train_infos.py the info aggregator   (AggSpec)     *)
(*   tools/viz_nusc_like.py            the replay loop       (VizSpec)     *)
(*                                     its transform helpers (TfSpec)      *)
(*                                                                         *)
(* Strings are modelled as sequences of tokens: a token is a separator     *)
(* ("/" or "\\") or a file-name component.  Lengths are in 1e-4 units, so  *)
(* the default offset 0.4 is 4000 and a translation of 1.0 is 10000.       *)
(* Floating-point rounding of the additions is not modelled.               *)
(***************************************************************************)
EXTENDS Integers, Sequences, FiniteSets, TLC

(***************************************************************************)
(* Bounds of the model.                                                    *)
(***************************************************************************)
NumRecords == 2      \* record_* directories under carla_root
MaxRows    == 2      \* rows of the first record's sample_data.json
MaxAnn     == 3      \* annotations of a record's sample_annotation.json
MaxRuns    == 2      \* corrector invocations in one behaviour
MaxSamples == 3      \* samples of a record
MaxAggRuns == 2      \* aggregator invocations in one behaviour

Records == 1..NumRecords

(***************************************************************************)
(* Strings and paths.                                                      *)
(***************************************************************************)
RecNames == <<"record_1", "record_2", "record_3", "record_4">>
RecName(r) == RecNames[r]

Last(s) == s[Len(s)]

\* str.lower() on the tokens of the model's alphabet
Lower(tok) ==
  CASE tok = "LIDAR_TOP" -> "lidar_top"
    [] tok = "CAM_FRONT" -> "cam_front"
    [] tok = "VELODYNE" -> "velodyne"
    [] OTHER -> tok

\* "lidar" in tok.lower()
ContainsLidar(tok) == Lower(tok) \in {"lidar_top", "lidar"}
\* tok.lower().startswith("lidar_")
StartsLidarUnderscore(tok) == Lower(tok) \in {"lidar_top"}
\* tok.lower().endswith(".bin")
EndsBin(tok) == Lower(tok) \in {"a.bin", "b.bin"}

IsPrefix(p, s) == Len(p) <= Len(s) /\ SubSeq(s, 1, Len(p)) = p

\* s.replace("\\", "/")
ReplaceBackslash(s) == [k \in 1..Len(s) |-> IF s[k] = "\\" THEN "/" ELSE s[k]]

\* s.lstrip("/")
RECURSIVE LStripSlash(_)
LStripSlash(s) ==
  IF s # <<>> /\ Head(s) = "/" THEN LStripSlash(Tail(s)) ELSE s

norm_rel_path(s) == LStripSlash(ReplaceBackslash(s))

\* the components of a "/"-separated string (the file system ignores empty ones)
Components(s) == SelectSeq(s, LAMBDA tok : tok # "/")

\* os.path.join(dir, fn) for a relative fn, as the list of components below carla_root
PathJoin(dir, fn) == dir \o Components(fn)

\* os.path.basename(fn)
Basename(fn) == IF fn = <<>> \/ Last(fn) = "/" THEN "" ELSE Last(fn)

(***************************************************************************)
(* State of the corrector and of the record tree it works on.              *)
(***************************************************************************)
VARIABLES
  bins,           \* point files on disk: path below carla_root -> float32 buffer
  anns,           \* sample_annotation.json of each record
  sdata,          \* sample_data.json of each record: the filename of each row
  tables,         \* which tables a record has: "ok", "no_ver", "no_sd", "no_ann"
  others,         \* sample.json, ego_pose.json and calibrated_sensor.json of each record
  markers,        \* the .zshifted_* marker files of each record (by encoded offset)
  args,           \* the command line of the current run
  pc,             \* where main() is: "idle", "rec", "rows", "ann", "marker"
  rec,            \* index of the record of the for loop (line 58)
  row,            \* index of the lidar entry of the inner loop (line 102)
  lidar_entries,  \* line 93
  sample_ann,     \* line 80: the annotation table in memory
  counts,         \* rec_bins, rec_points, ann_count and the totals
  outcome,        \* how the last run ended, or "running"
  runs,           \* invocations so far
  log,            \* what the run printed per record: "SKIP", "WARN", "REC", "OK", "DRY", ...
  start,          \* the on-disk state when the current run started
  shifts,         \* how often the current run rewrote each point file
  prev            \* the previous run: its command line, outcome, markers written, start

shiftVars == <<bins, anns, sdata, tables, others, markers, args, pc, rec, row, lidar_entries,
               sample_ann, counts, outcome, runs, log, start, shifts, prev>>

(***************************************************************************)
(* State of the aggregator and of the corpus root it works on.             *)
(***************************************************************************)
VARIABLES
  subdirs,        \* the record_* directories under carla_root (by name suffix)
  built,          \* what build_infos_for_one_record gives for each of them
  out,            \* nuscenes_infos_1sweeps_train_carla.pkl
  agg_pc,         \* where main() is: "idle", "loop", "save"
  record_dirs,    \* line 33
  agg_i,          \* index of the record of the for loop (line 39)
  all_infos,      \* line 38
  agg_outcome,    \* how the last run ended, or "running"
  agg_runs,       \* invocations so far
  out_start,      \* the output file when the current run started
  wrote           \* whether the current run has opened the output file for writing

aggVars == <<subdirs, built, out, agg_pc, record_dirs, agg_i, all_infos, agg_outcome,
             agg_runs, out_start, wrote>>

(***************************************************************************)
(* State of the replay loop (viz_nusc_like.py).                            *)
(***************************************************************************)
VARIABLES
  frames,         \* per sample: the point file of its lidar row and its annotations
  idx,            \* self.idx
  first_render,   \* self.first_render
  pcd,            \* self.pcd: the rows and the width of the cloud on display
  box_geoms,      \* self.box_geoms: the number of boxes on display
  title,          \* what the last render printed
  viz_pc,         \* "new", "run" (inside vis.run()) or "crashed"
  resets,         \* calls of vis.reset_view_point so far
  renders,        \* completed calls of update_renderer so far
  reset_at,       \* the renders during which the view was reset
  last            \* the last key event: its kind, its action and the cursor before it

vizVars == <<frames, idx, first_render, pcd, box_geoms, title, viz_pc, resets, renders,
             reset_at, last>>

(***************************************************************************)
(* State of one evaluation of the transform helpers (viz_nusc_like.py).    *)
(***************************************************************************)
VARIABLES
  tf_q,           \* the rotation quaternion (w, x, y, z)
  tf_t,           \* the translation
  tf_T,           \* make_T(t, q)
  tf_Ti,          \* inv_T(T)
  tf_pc           \* "new", "made", "inverted"

tfVars == <<tf_q, tf_t, tf_T, tf_Ti, tf_pc>>

vars == <<shiftVars, aggVars, vizVars, tfVars>>

(***************************************************************************)
(* The record trees the corrector is run on.                               *)
(***************************************************************************)
Offsets == {4000, -4000}            \* --delta_z, in 1e-4 units (default 0.4)
PointDims == {4, 5}                 \* --point_dim, choices=[4, 5]

FileA(r) == <<RecName(r), "samples", "LIDAR_TOP", "a.bin">>
FileB(r) == <<RecName(r), "sweeps", "LIDAR_TOP", "a.bin">>

\* filenames a sample_data row may carry
RowDirect  == <<"samples", "/", "LIDAR_TOP", "/", "a.bin">>
RowWindows == <<"samples", "\\", "LIDAR_TOP", "\\", "a.bin">>
RowSweep   == <<"sweeps", "/", "LIDAR_TOP", "/", "a.bin">>
RowMoved   == <<"/", "lidar", "/", "a.bin">>
RowCorpus  == <<RecName(NumRecords), "/", "samples", "/", "LIDAR_TOP", "/", "a.bin">>
RowCamera  == <<"samples", "/", "CAM_FRONT", "/", "c.jpg">>
RowVelodyne == <<"samples", "/", "VELODYNE", "/", "a.bin">>
RowPool    == <<RowDirect, RowWindows, RowSweep, RowMoved, RowCorpus, RowCamera, RowVelodyne>>

\* the rows of the pool that stand for a lidar point cloud, whatever their name
PointCloudRows == {RowDirect, RowWindows, RowSweep, RowMoved, RowCorpus, RowVelodyne}

\* the row lists of the first record: up to MaxRows rows of the pool, in pool order
RowLists ==
  { [k \in 1..Len(ix) |-> RowPool[ix[k]]] :
      ix \in { s \in UNION { [1..n -> 1..Len(RowPool)] : n \in 0..MaxRows } :
                 \A k \in 1..(Len(s) - 1) : s[k] <= s[k + 1] } }

\* a float32 buffer of n values
Buffer(n) == [k \in 1..n |-> 1000 * k]

\* one 5-wide point, or two 4-wide points
BufferLens == {5, 8}

Ann(tr) == [translation |-> tr, rotation |-> <<1, 0, 0, 0>>, size |-> <<2, 4, 1>>]
List(v) == [list |-> TRUE, v |-> v]
NotAList == [list |-> FALSE, v |-> <<>>]

\* annotations a table is made of: well-formed, a 2-element list, null, well-formed
AnnPool ==
  << Ann(List(<<70000, -30000, 10000>>)),
     Ann(List(<<50000, 20000>>)),
     Ann(NotAList),
     Ann(List(<<-10000, 0, -5000>>)) >>

AnnTable(r, n) == [k \in 1..n |-> AnnPool[((k + r - 2) % Len(AnnPool)) + 1]]

TableStates == {"ok", "no_ver", "no_sd", "no_ann"}

\* the tables of a record the corrector does not load
Pose(t) == [translation |-> t, rotation |-> <<1, 0, 0, 0>>]
OtherTables(r) ==
  [sample |-> <<[token |-> <<r, 1>>]>>,
   ego_pose |-> <<Pose(<<0, 0, 10000 * r>>)>>,
   calibrated_sensor |-> <<Pose(<<0, 0, 18000>>)>>]

\* f"{delta_z:+.3f}": the offset rounded to three decimals
MarkerName(dz) == (dz + 5) \div 10

NoArgs == [delta_z |-> 0, point_dim |-> 5, force |-> FALSE, dry_run |-> FALSE]
ZeroCounts == [rec_bins |-> 0, rec_points |-> 0, ann_count |-> 0,
               total_bins |-> 0, total_points |-> 0, total_ann |-> 0]

Disk == [bins |-> bins, anns |-> anns, markers |-> markers]

\* the point files of the tree: in every record a.bin under samples/ (one 5-wide
\* point), in the first record also an a.bin under sweeps/ (two 4-wide points)
FileLen(p) == IF p = FileB(1) THEN 8 ELSE 5
FileChoices ==
  { present \in SUBSET ({FileA(r) : r \in Records} \cup {FileB(1)}) :
      \A r \in Records \ {1} : FileA(r) \in present }

\* at most one record lacks a table
TableChoices ==
  { [r \in Records |-> IF r = r0 THEN t ELSE "ok"] :
      r0 \in Records, t \in TableStates }

\* the aggregator, not running
AggQuiet ==
  /\ subdirs = {}
  /\ built = <<>>
  /\ out = [exists |-> FALSE, infos |-> <<>>]
  /\ agg_pc = "idle"
  /\ record_dirs = <<>>
  /\ agg_i = 0
  /\ all_infos = <<>>
  /\ agg_outcome = "none"
  /\ agg_runs = 0
  /\ out_start = [exists |-> FALSE, infos |-> <<>>]
  /\ wrote = FALSE

\* the replay loop, not started
VizQuiet ==
  /\ frames = <<>>
  /\ idx = 0
  /\ first_render = TRUE
  /\ pcd = [rows |-> 0, width |-> 0]
  /\ box_geoms = 0
  /\ title = <<>>
  /\ viz_pc = "off"
  /\ resets = 0
  /\ renders = 0
  /\ reset_at = {}
  /\ last = [key |-> "none", action |-> 1, before |-> 0]

\* the transform helpers, not called
TfQuiet ==
  /\ tf_q = <<1, 0, 0, 0>>
  /\ tf_t = <<0, 0, 0>>
  /\ tf_T = <<>>
  /\ tf_Ti = <<>>
  /\ tf_pc = "off"

ShiftInit ==
  /\ AggQuiet
  /\ VizQuiet
  /\ TfQuiet
  /\ \E present \in FileChoices : bins = [p \in present |-> Buffer(FileLen(p))]
  /\ anns = [r \in Records |-> AnnTable(r, MaxAnn)]
  /\ \E rows \in RowLists :
       /\ sdata = [r \in Records |-> IF r = 1 THEN rows ELSE <<RowDirect>>]
       /\ tables \in TableChoices
  /\ others = [r \in Records |-> OtherTables(r)]
  /\ markers = [r \in Records |-> {}]
  /\ \E dim \in PointDims : args = [NoArgs EXCEPT !.point_dim = dim]
  /\ pc = "idle"
  /\ rec = 0
  /\ row = 0
  /\ lidar_entries = <<>>
  /\ sample_ann = <<>>
  /\ counts = ZeroCounts
  /\ outcome = "none"
  /\ runs = 0
  /\ log = [r \in Records |-> {}]
  /\ start = Disk
  /\ shifts = [p \in DOMAIN bins |-> 0]
  /\ prev = [args |-> NoArgs, outcome |-> "none", marked |-> {}, start |-> Disk]

(***************************************************************************)
(* shift_carla.py                                                          *)
(***************************************************************************)
\* lines 83-91, on the filename of the row
is_lidar_row(fn) ==
  LET low == [k \in 1..Len(fn) |-> Lower(fn[k])] IN
    \/ IsPrefix(<<"samples", "/", "lidar_top", "/">>, low)
    \/ IsPrefix(<<"sweeps", "/", "lidar_top", "/">>, low)
    \/ /\ \E k \in 1..(Len(low) - 1) : low[k] = "/" /\ StartsLidarUnderscore(low[k + 1])
       /\ low # <<>> /\ EndsBin(Last(low))
    \/ /\ \E k \in 1..Len(low) : ContainsLidar(low[k])
       /\ low # <<>> /\ EndsBin(Last(low))

\* lines 20-27: the buffer after the shift; the caller checks Malformed first
Malformed(buf, point_dim) == Len(buf) % point_dim # 0

\* ShiftedBuffer adding the magnitude of the offset
ShiftedBufferMagnitude(buf, point_dim, dz) ==
  [k \in 1..Len(buf) |->
     IF (k - 1) % point_dim = 2 THEN buf[k] + (IF dz < 0 THEN 0 - dz ELSE dz) ELSE buf[k]]

ShiftedBuffer(buf, point_dim, dz) ==
  [k \in 1..Len(buf) |-> IF (k - 1) % point_dim = 2 THEN buf[k] + dz ELSE buf[k]]

\* os.path.isfile
IsFile(p) == p \in DOMAIN bins
\* the directories and files of the tree
Entries ==
  DOMAIN bins \cup UNION { { SubSeq(p, 1, n) : n \in 1..(Len(p) - 1) } : p \in DOMAIN bins }
\* glob.glob(os.path.join(rec, "**", base), recursive=True)
Hits(r, base) ==
  { p \in Entries : Len(p) >= 2 /\ p[1] = RecName(r) /\ Last(p) = base }

\* Resolve taking the first match of the basename search when there are several
ResolveAnyHit(r, fn) ==
  LET candidate1 == PathJoin(<<RecName(r)>>, fn)
      candidate2 == PathJoin(<<>>, fn)
      hits == Hits(r, Basename(fn))
  IN  IF IsFile(candidate1) THEN [found |-> TRUE, path |-> candidate1]
      ELSE IF IsFile(candidate2) THEN [found |-> TRUE, path |-> candidate2]
      ELSE IF \E h \in hits : IsFile(h)
           THEN [found |-> TRUE, path |-> CHOOSE h \in hits : IsFile(h)]
           ELSE [found |-> FALSE, path |-> <<>>]

\* lines 110-128: the file of a normalized filename, or none
Resolve(r, fn) ==
  LET candidate1 == PathJoin(<<RecName(r)>>, fn)
      candidate2 == PathJoin(<<>>, fn)
      hits == Hits(r, Basename(fn))
  IN  IF IsFile(candidate1) THEN [found |-> TRUE, path |-> candidate1]
      ELSE IF IsFile(candidate2) THEN [found |-> TRUE, path |-> candidate2]
      ELSE IF Cardinality(hits) = 1 /\ \A h \in hits : IsFile(h)
           THEN [found |-> TRUE, path |-> CHOOSE h \in hits : TRUE]
           ELSE [found |-> FALSE, path |-> <<>>]

\* ShiftedAnn adding the offset to the second component
ShiftedAnnSecond(a, dz) ==
  IF a.translation.list /\ Len(a.translation.v) = 3
  THEN [a EXCEPT !.translation.v[2] = @ + dz]
  ELSE a

\* lines 141-147, in memory
WellFormed(a) == a.translation.list /\ Len(a.translation.v) = 3
ShiftedAnn(a, dz) ==
  IF WellFormed(a)
  THEN [a EXCEPT !.translation.v[3] = @ + dz]
  ELSE a
ShiftedTable(t, dz) == [k \in 1..Len(t) |-> ShiftedAnn(t[k], dz)]
AnnCount(t) == Cardinality({k \in 1..Len(t) : WellFormed(t[k])})

Marker == MarkerName(args.delta_z)
Say(r, what) == [log EXCEPT ![r] = @ \cup what]

\* lines 29-56: a new invocation
StartRun(dz, force, dry_run) ==
  /\ pc = "idle"
  /\ runs < MaxRuns
  /\ args' = [args EXCEPT !.delta_z = dz, !.force = force, !.dry_run = dry_run]
  /\ pc' = "rec"
  /\ rec' = 1
  /\ row' = 0
  /\ lidar_entries' = <<>>
  /\ sample_ann' = <<>>
  /\ counts' = ZeroCounts
  /\ outcome' = "running"
  /\ runs' = runs + 1
  /\ log' = [r \in Records |-> {}]
  /\ start' = Disk
  /\ shifts' = [p \in DOMAIN bins |-> 0]
  /\ prev' = [args |-> args, outcome |-> outcome,
              marked |-> {r \in Records : "MARKER" \in log[r]}, start |-> start]
  /\ UNCHANGED <<bins, anns, sdata, tables, others, markers>>
  /\ UNCHANGED <<aggVars, vizVars, tfVars>>

\* lines 58-62: the record has the marker of this offset
SkipMarked ==
  /\ pc = "rec" /\ rec <= NumRecords
  /\ Marker \in markers[rec] /\ ~args.force
  /\ log' = Say(rec, {"SKIP"})
  /\ rec' = rec + 1
  /\ UNCHANGED <<bins, anns, sdata, tables, others, markers, args, pc, row, lidar_entries,
                 sample_ann, counts, outcome, runs, start, shifts, prev>>
  /\ UNCHANGED <<aggVars, vizVars, tfVars>>

\* lines 64-77: the version directory or a table is missing
SkipMissing ==
  /\ pc = "rec" /\ rec <= NumRecords
  /\ ~(Marker \in markers[rec] /\ ~args.force)
  /\ tables[rec] # "ok"
  /\ log' = Say(rec, {"WARN_MISSING"})
  /\ rec' = rec + 1
  /\ UNCHANGED <<bins, anns, sdata, tables, others, markers, args, pc, row, lidar_entries,
                 sample_ann, counts, outcome, runs, start, shifts, prev>>
  /\ UNCHANGED <<aggVars, vizVars, tfVars>>

\* lines 79-100: load the tables and pick the lidar rows
LoadRecord ==
  /\ pc = "rec" /\ rec <= NumRecords
  /\ ~(Marker \in markers[rec] /\ ~args.force)
  /\ tables[rec] = "ok"
  /\ sample_ann' = anns[rec]
  /\ lidar_entries' = SelectSeq(sdata[rec], is_lidar_row)
  /\ log' = Say(rec, IF lidar_entries' = <<>> THEN {"WARN_NO_LIDAR"} ELSE {"REC"})
  /\ counts' = [counts EXCEPT !.rec_bins = 0, !.rec_points = 0]
  /\ row' = 1
  /\ pc' = IF lidar_entries' = <<>> THEN "ann" ELSE "rows"
  /\ UNCHANGED <<bins, anns, sdata, tables, others, markers, args, rec, outcome, runs, start,
                 shifts, prev>>
  /\ UNCHANGED <<aggVars, vizVars, tfVars>>

Found == Resolve(rec, norm_rel_path(lidar_entries[row]))
NextRow ==
  /\ row' = row + 1
  /\ pc' = IF row = Len(lidar_entries) THEN "ann" ELSE "rows"

\* lines 102-128: no file for the row
RowUnresolved ==
  /\ pc = "rows"
  /\ ~Found.found
  /\ outcome' = "FileNotFoundError"
  /\ pc' = "idle"
  /\ UNCHANGED <<bins, anns, sdata, tables, others, markers, args, rec, row, lidar_entries,
                 sample_ann, counts, runs, log, start, shifts, prev>>
  /\ UNCHANGED <<aggVars, vizVars, tfVars>>

\* RowDry without the dry-run test of line 130
RowDryShifts ==
  /\ pc = "rows"
  /\ Found.found
  /\ args.dry_run
  /\ ~Malformed(bins[Found.path], args.point_dim)
  /\ bins' = [bins EXCEPT ![Found.path] = ShiftedBuffer(@, args.point_dim, args.delta_z)]
  /\ counts' = [counts EXCEPT !.rec_bins = @ + 1]
  /\ NextRow
  /\ UNCHANGED <<anns, sdata, tables, others, markers, args, rec, lidar_entries,
                 sample_ann, outcome, runs, log, start, shifts, prev>>
  /\ UNCHANGED <<aggVars, vizVars, tfVars>>

\* lines 102-132: dry run
RowDry ==
  /\ pc = "rows"
  /\ Found.found
  /\ args.dry_run
  /\ counts' = [counts EXCEPT !.rec_bins = @ + 1]
  /\ NextRow
  /\ UNCHANGED <<bins, anns, sdata, tables, others, markers, args, rec, lidar_entries,
                 sample_ann, outcome, runs, log, start, shifts, prev>>
  /\ UNCHANGED <<aggVars, vizVars, tfVars>>

\* lines 102-134 and 21-23: the buffer does not reshape
RowMalformed ==
  /\ pc = "rows"
  /\ Found.found
  /\ ~args.dry_run
  /\ Malformed(bins[Found.path], args.point_dim)
  /\ outcome' = "ValueError"
  /\ pc' = "idle"
  /\ UNCHANGED <<bins, anns, sdata, tables, others, markers, args, rec, row, lidar_entries,
                 sample_ann, counts, runs, log, start, shifts, prev>>
  /\ UNCHANGED <<aggVars, vizVars, tfVars>>

\* lines 102-136 and 21-27: the file is rewritten
RowShift ==
  /\ pc = "rows"
  /\ Found.found
  /\ ~args.dry_run
  /\ ~Malformed(bins[Found.path], args.point_dim)
  /\ bins' = [bins EXCEPT ![Found.path] = ShiftedBuffer(@, args.point_dim, args.delta_z)]
  /\ shifts' = [shifts EXCEPT ![Found.path] = @ + 1]
  /\ counts' = [counts EXCEPT !.rec_bins = @ + 1,
                              !.rec_points = @ + (Len(bins[Found.path]) \div args.point_dim)]
  /\ NextRow
  /\ UNCHANGED <<anns, sdata, tables, others, markers, args, rec, lidar_entries, sample_ann,
                 outcome, runs, log, start, prev>>
  /\ UNCHANGED <<aggVars, vizVars, tfVars>>

EndRecord(tag) ==
  /\ counts' = [counts EXCEPT !.ann_count = AnnCount(sample_ann),
                              !.total_bins = @ + counts.rec_bins,
                              !.total_points = @ + counts.rec_points,
                              !.total_ann = @ + AnnCount(sample_ann)]
  /\ log' = Say(rec, tag)
  /\ rec' = rec + 1
  /\ pc' = "rec"

\* lines 140-160 of a dry run: count, write nothing
AnnDry ==
  /\ pc = "ann"
  /\ args.dry_run
  /\ EndRecord({"DRY"})
  /\ UNCHANGED <<bins, anns, sdata, tables, others, markers, args, row, lidar_entries,
                 sample_ann, outcome, runs, start, shifts, prev>>
  /\ UNCHANGED <<aggVars, vizVars, tfVars>>

\* AnnSave with the marker written before the table is saved
AnnSaveMarksFirst ==
  /\ pc = "ann"
  /\ ~args.dry_run
  /\ sample_ann' = ShiftedTable(sample_ann, args.delta_z)
  /\ markers' = [markers EXCEPT ![rec] = @ \cup {Marker}]
  /\ counts' = [counts EXCEPT !.ann_count = AnnCount(sample_ann)]
  /\ log' = Say(rec, {"MARKER"})
  /\ pc' = "marker"
  /\ UNCHANGED <<bins, anns, sdata, tables, others, args, rec, row, lidar_entries, outcome,
                 runs, start, shifts, prev>>
  /\ UNCHANGED <<aggVars, vizVars, tfVars>>

\* AnnSave shifting the ego poses of the record as well
AnnSaveShiftsEgo ==
  /\ pc = "ann"
  /\ ~args.dry_run
  /\ sample_ann' = ShiftedTable(sample_ann, args.delta_z)
  /\ anns' = [anns EXCEPT ![rec] = sample_ann']
  /\ others' = [others EXCEPT ![rec].ego_pose =
                  [k \in 1..Len(@) |-> [@[k] EXCEPT !.translation[3] = @ + args.delta_z]]]
  /\ counts' = [counts EXCEPT !.ann_count = AnnCount(sample_ann)]
  /\ log' = Say(rec, {"ANN_SAVED"})
  /\ pc' = "marker"
  /\ UNCHANGED <<bins, sdata, tables, markers, args, rec, row, lidar_entries, outcome,
                 runs, start, shifts, prev>>
  /\ UNCHANGED <<aggVars, vizVars, tfVars>>

\* lines 140-150: shift the table in memory and save it
AnnSave ==
  /\ pc = "ann"
  /\ ~args.dry_run
  /\ sample_ann' = ShiftedTable(sample_ann, args.delta_z)
  /\ anns' = [anns EXCEPT ![rec] = sample_ann']
  /\ counts' = [counts EXCEPT !.ann_count = AnnCount(sample_ann)]
  /\ log' = Say(rec, {"ANN_SAVED"})
  /\ pc' = "marker"
  /\ UNCHANGED <<bins, sdata, tables, others, markers, args, rec, row, lidar_entries, outcome,
                 runs, start, shifts, prev>>
  /\ UNCHANGED <<aggVars, vizVars, tfVars>>

\* WriteMarker creating the marker outside the record directory
WriteMarkerElsewhere ==
  /\ pc = "marker"
  /\ EndRecord({"MARKER", "OK"})
  /\ UNCHANGED <<bins, anns, sdata, tables, others, markers, args, row, lidar_entries, sample_ann,
                 outcome, runs, start, shifts, prev>>
  /\ UNCHANGED <<aggVars, vizVars, tfVars>>

\* lines 151-162: the marker, then the totals
WriteMarker ==
  /\ pc = "marker"
  /\ markers' = [markers EXCEPT ![rec] = @ \cup {Marker}]
  /\ EndRecord({"MARKER", "OK"})
  /\ UNCHANGED <<bins, anns, sdata, tables, others, args, row, lidar_entries, sample_ann,
                 outcome, runs, start, shifts, prev>>
  /\ UNCHANGED <<aggVars, vizVars, tfVars>>

\* lines 164-172: the summary
Finish ==
  /\ pc = "rec" /\ rec > NumRecords
  /\ outcome' = "done"
  /\ pc' = "idle"
  /\ UNCHANGED <<bins, anns, sdata, tables, others, markers, args, rec, row, lidar_entries,
                 sample_ann, counts, runs, log, start, shifts, prev>>
  /\ UNCHANGED <<aggVars, vizVars, tfVars>>

ShiftNext ==
  \/ \E dz \in Offsets, force \in BOOLEAN, dry_run \in BOOLEAN : StartRun(dz, force, dry_run)
  \/ SkipMarked
  \/ SkipMissing
  \/ LoadRecord
  \/ RowUnresolved
  \/ RowDry
  \/ RowMalformed
  \/ RowShift
  \/ AnnDry
  \/ AnnSave
  \/ WriteMarker
  \/ Finish

ShiftSpec == ShiftInit /\ [][ShiftNext]_vars

\* lines 58-162: the run is interrupted between two steps (SIGINT, a kill)
Interrupt ==
  /\ pc \in {"rec", "rows", "ann", "marker"}
  /\ outcome' = "KeyboardInterrupt"
  /\ pc' = "idle"
  /\ UNCHANGED <<bins, anns, sdata, tables, others, markers, args, rec, row, lidar_entries,
                 sample_ann, counts, runs, log, start, shifts, prev>>
  /\ UNCHANGED <<aggVars, vizVars, tfVars>>

ResumeNext ==
  \/ ShiftNext
  \/ Interrupt

\* the corrector with runs that may be interrupted
ResumeSpec == ShiftInit /\ [][ResumeNext]_vars

\* --delta_z values closer to each other than the three decimals of the marker name
FineOffsets == Offsets \cup {4004}

MarkerNext ==
  \/ \E dz \in FineOffsets, force \in BOOLEAN, dry_run \in BOOLEAN :
       StartRun(dz, force, dry_run)
  \/ SkipMarked
  \/ SkipMissing
  \/ LoadRecord
  \/ RowUnresolved
  \/ RowDry
  \/ RowMalformed
  \/ RowShift
  \/ AnnDry
  \/ AnnSave
  \/ WriteMarker
  \/ Finish

\* the corrector with offsets that differ in the fourth decimal
MarkerSpec == ShiftInit /\ [][MarkerNext]_vars

(***************************************************************************)
(* create_carla_train_infos.py                                             *)
(***************************************************************************)
\* the names of the record directories: "record_" and a digit string
Suffixes == {<<1>>, <<1, 0>>, <<2>>}
DirName(sfx) ==
  CASE sfx = <<1>> -> "record_1"
    [] sfx = <<1, 0>> -> "record_10"
    [] sfx = <<2>> -> "record_2"
    [] OTHER -> "record_9"
\* an entry of carla_root that is named record_9 and is not a directory
Stray == <<9>>

\* the order of str (and of Path) on names with a common prefix
LexLess(a, b) ==
  \E k \in 1..Len(b) :
    /\ \A j \in 1..(k - 1) : j <= Len(a) /\ a[j] = b[j]
    /\ (k > Len(a) \/ a[k] < b[k])

RECURSIVE Insert(_, _)
Insert(x, s) ==
  IF s = <<>> THEN <<x>>
  ELSE IF LexLess(Head(s), x) THEN <<Head(s)>> \o Insert(x, Tail(s))
  ELSE <<x>> \o s

\* sorted(...) of line 33
RECURSIVE sorted(_)
sorted(s) == IF s = <<>> THEN <<>> ELSE Insert(Head(s), sorted(Tail(s)))

\* the orders in which iterdir() may list a set of entries
Listings(S) ==
  { f \in [1..Cardinality(S) -> S] : \A i, j \in 1..Cardinality(S) : f[i] = f[j] => i = j }

\* line 33: the record directories of a listing, sorted
RecordDirs(listing) == sorted(SelectSeq(listing, LAMBDA e : e \in subdirs))

\* the record-local lidar_path of a descriptor, as the reader gives it
FileNames == <<"a.bin", "b.bin", "c.bin", "d.bin">>
Styles == {"posix", "windows", "rooted"}
LocalPath(style, k) ==
  CASE style = "posix" -> <<"samples", "/", "LIDAR_TOP", "/", FileNames[k]>>
    [] style = "windows" -> <<"samples", "\\", "LIDAR_TOP", "\\", FileNames[k]>>
    [] style = "rooted" -> <<"/", "samples", "/", "LIDAR_TOP", "/", FileNames[k]>>

\* lines 7-23: the descriptors of a record, or an exception
BuildResults(sfx) ==
  {[fails |-> TRUE, infos |-> <<>>]} \cup
  { [fails |-> FALSE,
     infos |-> [k \in 1..n |-> [token |-> <<sfx, k>>, lidar_path |-> LocalPath(style, k)]]] :
      n \in {0, MaxSamples}, style \in Styles }

\* line 45: Path("carla") / "nusc_like_multi" / rec.name
Prefix(sfx) == <<"carla", "/", "nusc_like_multi", "/", DirName(sfx)>>

\* line 47: str(prefix / lidar_path); an absolute right operand replaces the left one
Rewrite(prefix, lidar_path) ==
  IF lidar_path = <<>> THEN prefix
  ELSE IF Head(lidar_path) = "/" THEN lidar_path
  ELSE prefix \o <<"/">> \o lidar_path

Rewritten(sfx, infos) ==
  [k \in 1..Len(infos) |-> [infos[k] EXCEPT !.lidar_path = Rewrite(Prefix(sfx), @)]]

\* the corrector, not running
ShiftQuiet ==
  /\ bins = <<>>
  /\ anns = [r \in Records |-> <<>>]
  /\ sdata = [r \in Records |-> <<>>]
  /\ tables = [r \in Records |-> "ok"]
  /\ others = [r \in Records |-> OtherTables(r)]
  /\ markers = [r \in Records |-> {}]
  /\ args = NoArgs
  /\ pc = "idle"
  /\ rec = 0
  /\ row = 0
  /\ lidar_entries = <<>>
  /\ sample_ann = <<>>
  /\ counts = ZeroCounts
  /\ outcome = "none"
  /\ runs = 0
  /\ log = [r \in Records |-> {}]
  /\ start = Disk
  /\ shifts = <<>>
  /\ prev = [args |-> NoArgs, outcome |-> "none", marked |-> {}, start |-> Disk]

AggInit ==
  /\ ShiftQuiet
  /\ VizQuiet
  /\ TfQuiet
  /\ subdirs \in SUBSET Suffixes
  /\ \E b \in [subdirs -> UNION { BuildResults(sfx) : sfx \in Suffixes }] :
       /\ \A sfx \in subdirs : b[sfx] \in BuildResults(sfx)
       /\ built = b
  /\ out = [exists |-> FALSE, infos |-> <<>>]
  /\ agg_pc = "idle"
  /\ record_dirs = <<>>
  /\ agg_i = 0
  /\ all_infos = <<>>
  /\ agg_outcome = "none"
  /\ agg_runs = 0
  /\ out_start = out
  /\ wrote = FALSE

\* lines 25-34 with no record_* directory: the assertion fails
AggNoRecords(listing) ==
  /\ agg_pc = "idle"
  /\ agg_runs < MaxAggRuns
  /\ RecordDirs(listing) = <<>>
  /\ agg_runs' = agg_runs + 1
  /\ record_dirs' = <<>>
  /\ agg_i' = 0
  /\ all_infos' = <<>>
  /\ agg_outcome' = "AssertionError"
  /\ out_start' = out
  /\ wrote' = FALSE
  /\ UNCHANGED <<subdirs, built, out, agg_pc>>
  /\ UNCHANGED <<shiftVars, vizVars, tfVars>>

\* lines 25-38: discover the records
AggStart(listing) ==
  /\ agg_pc = "idle"
  /\ agg_runs < MaxAggRuns
  /\ RecordDirs(listing) # <<>>
  /\ agg_runs' = agg_runs + 1
  /\ record_dirs' = RecordDirs(listing)
  /\ agg_i' = 1
  /\ all_infos' = <<>>
  /\ agg_outcome' = "running"
  /\ agg_pc' = "loop"
  /\ out_start' = out
  /\ wrote' = FALSE
  /\ UNCHANGED <<subdirs, built, out>>
  /\ UNCHANGED <<shiftVars, vizVars, tfVars>>

\* AggRecord dumping the corpus after every record
AggRecordDumps ==
  /\ agg_pc = "loop"
  /\ ~built[record_dirs[agg_i]].fails
  /\ all_infos' = all_infos \o Rewritten(record_dirs[agg_i], built[record_dirs[agg_i]].infos)
  /\ out' = [exists |-> TRUE, infos |-> all_infos']
  /\ wrote' = TRUE
  /\ agg_i' = agg_i + 1
  /\ agg_pc' = IF agg_i = Len(record_dirs) THEN "save" ELSE "loop"
  /\ UNCHANGED <<subdirs, built, record_dirs, agg_outcome, agg_runs, out_start>>
  /\ UNCHANGED <<shiftVars, vizVars, tfVars>>

\* lines 39-51: one record
AggRecord ==
  /\ agg_pc = "loop"
  /\ ~built[record_dirs[agg_i]].fails
  /\ all_infos' = all_infos \o Rewritten(record_dirs[agg_i], built[record_dirs[agg_i]].infos)
  /\ agg_i' = agg_i + 1
  /\ agg_pc' = IF agg_i = Len(record_dirs) THEN "save" ELSE "loop"
  /\ UNCHANGED <<subdirs, built, out, record_dirs, agg_outcome, agg_runs, out_start, wrote>>
  /\ UNCHANGED <<shiftVars, vizVars, tfVars>>

\* line 40: building the descriptors of the record raises
AggBuildFails ==
  /\ agg_pc = "loop"
  /\ built[record_dirs[agg_i]].fails
  /\ agg_outcome' = "error"
  /\ agg_pc' = "idle"
  /\ UNCHANGED <<subdirs, built, out, record_dirs, agg_i, all_infos, agg_runs, out_start,
                 wrote>>
  /\ UNCHANGED <<shiftVars, vizVars, tfVars>>

\* lines 53-58: write the corpus
AggSave ==
  /\ agg_pc = "save"
  /\ out' = [exists |-> TRUE, infos |-> all_infos]
  /\ wrote' = TRUE
  /\ agg_outcome' = "done"
  /\ agg_pc' = "idle"
  /\ UNCHANGED <<subdirs, built, record_dirs, agg_i, all_infos, agg_runs, out_start>>
  /\ UNCHANGED <<shiftVars, vizVars, tfVars>>

AggNext ==
  \/ \E listing \in Listings(subdirs \cup {Stray}) : AggNoRecords(listing)
  \/ \E listing \in Listings(subdirs \cup {Stray}) : AggStart(listing)
  \/ AggRecord
  \/ AggBuildFails
  \/ AggSave

AggSpec == AggInit /\ [][AggNext]_vars

(***************************************************************************)
(* viz_nusc_like.py: the replay loop                                       *)
(***************************************************************************)
MaxRenders == 4      \* renders of one session of the replay loop

\* a point file of n points written with w float32 values per point
PointFile(w, n) == [present |-> TRUE, written |-> w, points |-> n, size |-> w * n]
\* a file cut short: 7 values
Truncated == [present |-> TRUE, written |-> 0, points |-> 0, size |-> 7]
\* the row names a file that is not there
Absent == [present |-> FALSE, written |-> 0, points |-> 0, size |-> 0]

FilePool == {PointFile(5, 1), PointFile(4, 2), PointFile(4, 5), Truncated, Absent}

\* sample k of the record: its point file and the number of its annotations
Frame(file, k) == [file |-> file, anns |-> k]
FrameLists ==
  UNION { { [k \in 1..n |-> Frame(f[k], k)] : f \in [1..n -> FilePool] } : n \in 0..MaxSamples }

\* --frame_idx
StartIdxs == (0 - 1)..(MaxSamples + 1)

\* the action argument of a key callback: absent (None), release, press, repeat
NoAction == 0 - 1
KeyActions == {NoAction, 0, 1, 2}

VizInit ==
  /\ ShiftQuiet
  /\ AggQuiet
  /\ TfQuiet
  /\ frames \in FrameLists
  /\ idx \in StartIdxs
  /\ first_render = TRUE
  /\ pcd = [rows |-> 0, width |-> 0]
  /\ box_geoms = 0
  /\ title = <<>>
  /\ viz_pc = "new"
  /\ resets = 0
  /\ renders = 0
  /\ reset_at = {}
  /\ last = [key |-> "none", action |-> 1, before |-> idx]

\* Clamped going round to the other end of the sequence
ClampedWraps(i) == IF Len(frames) = 0 THEN 0 - 1 ELSE i % Len(frames)

\* lines 57-58
Clamped(i) ==
  LET lo == IF i < 0 THEN 0 ELSE i
  IN  IF lo >= Len(frames) THEN Len(frames) - 1 ELSE lo

\* lines 77-83: the width the buffer is reshaped to, 0 for none
Detect(size) ==
  IF size % 5 = 0 THEN 5
  ELSE IF size % 4 = 0 THEN 4
  ELSE 0

\* lines 60-74: samples[self.idx] or np.fromfile raises
Raises(i) ==
  \/ Len(frames) = 0
  \/ ~frames[Clamped(i) + 1].file.present

\* update_renderer where the view is reset on every render
UpdateRendererResets(i) ==
  /\ idx' = Clamped(i)
  /\ IF Raises(i)
     THEN /\ viz_pc' = "crashed"
          /\ UNCHANGED <<first_render, pcd, box_geoms, title, resets, renders, reset_at>>
     ELSE LET f == frames[Clamped(i) + 1]
              w == Detect(f.file.size)
          IN  /\ viz_pc' = "run"
              /\ pcd' = IF w = 0 THEN pcd ELSE [rows |-> f.file.size \div w, width |-> w]
              /\ box_geoms' = IF w = 0 THEN 0 ELSE f.anns
              /\ title' = IF w = 0 THEN <<"Error loading frame">> ELSE <<"Frame", Clamped(i)>>
              /\ renders' = renders + 1
              /\ resets' = resets + 1
              /\ reset_at' = reset_at \cup {renders + 1}
              /\ first_render' = FALSE

\* lines 117-140 with load_frame_data (lines 54-115), called with self.idx = i
UpdateRenderer(i) ==
  /\ idx' = Clamped(i)
  /\ IF Raises(i)
     THEN /\ viz_pc' = "crashed"
          /\ UNCHANGED <<first_render, pcd, box_geoms, title, resets, renders, reset_at>>
     ELSE LET f == frames[Clamped(i) + 1]
              w == Detect(f.file.size)
          IN  /\ viz_pc' = "run"
              /\ pcd' = IF w = 0 THEN pcd ELSE [rows |-> f.file.size \div w, width |-> w]
              /\ box_geoms' = IF w = 0 THEN 0 ELSE f.anns
              /\ title' = IF w = 0 THEN <<"Error loading frame">> ELSE <<"Frame", Clamped(i)>>
              /\ renders' = renders + 1
              /\ resets' = IF first_render THEN resets + 1 ELSE resets
              /\ reset_at' = IF first_render THEN reset_at \cup {renders + 1} ELSE reset_at
              /\ first_render' = FALSE

\* line 181: the initial render
InitialRender ==
  /\ viz_pc = "new"
  /\ UpdateRenderer(idx)
  /\ last' = [key |-> "none", action |-> 1, before |-> idx]
  /\ UNCHANGED frames
  /\ UNCHANGED <<shiftVars, aggVars, tfVars>>

\* lines 143-152 and 154-160: a key callback moving the cursor by step
KeyEvent(key, step, action) ==
  /\ viz_pc = "run"
  /\ renders < MaxRenders
  /\ last' = [key |-> key, action |-> action, before |-> idx]
  /\ IF action # NoAction /\ action # 1
     THEN UNCHANGED <<idx, first_render, pcd, box_geoms, title, viz_pc, resets, renders,
                      reset_at>>
     ELSE UpdateRenderer(idx + step)
  /\ UNCHANGED frames
  /\ UNCHANGED <<shiftVars, aggVars, tfVars>>

on_right(action) == KeyEvent("right", 1, action)
on_left(action) == KeyEvent("left", 0 - 1, action)

VizNext ==
  \/ InitialRender
  \/ \E action \in KeyActions : on_right(action)
  \/ \E action \in KeyActions : on_left(action)

VizSpec == VizInit /\ [][VizNext]_vars

(***************************************************************************)
(* viz_nusc_like.py: the transform helpers                                 *)
(***************************************************************************)
MaxCoord == 2        \* largest coordinate of a translation

Coords == (0 - 1)..MaxCoord
Translations == [1..3 -> Coords]

SqNorm(q) == q[1] * q[1] + q[2] * q[2] + q[3] * q[3] + q[4] * q[4]

\* quaternions of the rotations with an integer matrix; quat2mat divides by the
\* squared norm, so q stands for the unit quaternion q / |q|
Quats == { q \in [1..4 -> {0 - 1, 0, 1}] : SqNorm(q) \in {1, 2, 4} }

\* line 8: transforms3d.quaternions.quat2mat
quat_wxyz_to_R(q) ==
  LET w == q[1]
      x == q[2]
      y == q[3]
      z == q[4]
      Nq == SqNorm(q)
      P(a, b) == 2 * a * b
  IN  << << (Nq - (P(y, y) + P(z, z))) \div Nq, (P(x, y) - P(w, z)) \div Nq,
            (P(x, z) + P(w, y)) \div Nq >>,
         << (P(x, y) + P(w, z)) \div Nq, (Nq - (P(x, x) + P(z, z))) \div Nq,
            (P(y, z) - P(w, x)) \div Nq >>,
         << (P(x, z) - P(w, y)) \div Nq, (P(y, z) + P(w, x)) \div Nq,
            (Nq - (P(x, x) + P(y, y))) \div Nq >> >>

\* np.eye(4)
Eye4 == [i \in 1..4 |-> [j \in 1..4 |-> IF i = j THEN 1 ELSE 0]]

\* the @ of two 4x4 matrices
MatMul(A, B) ==
  [i \in 1..4 |-> [j \in 1..4 |->
     A[i][1] * B[1][j] + A[i][2] * B[2][j] + A[i][3] * B[3][j] + A[i][4] * B[4][j]]]

\* lines 10-14
make_T(t, q) ==
  LET R == quat_wxyz_to_R(q)
  IN  [i \in 1..4 |-> [j \in 1..4 |->
        IF i <= 3 /\ j <= 3 THEN R[i][j]
        ELSE IF i <= 3 THEN t[i]
        ELSE Eye4[i][j]]]

\* inv_T negating the translation without rotating it
inv_T_PlainNegation(T) ==
  [i \in 1..4 |-> [j \in 1..4 |->
     IF i <= 3 /\ j <= 3 THEN T[j][i]
     ELSE IF i <= 3 THEN 0 - T[i][4]
     ELSE Eye4[i][j]]]

\* lines 16-22
inv_T(T) ==
  [i \in 1..4 |-> [j \in 1..4 |->
     IF i <= 3 /\ j <= 3 THEN T[j][i]
     ELSE IF i <= 3 THEN 0 - (T[1][i] * T[1][4] + T[2][i] * T[2][4] + T[3][i] * T[3][4])
     ELSE Eye4[i][j]]]

TfInit ==
  /\ ShiftQuiet
  /\ AggQuiet
  /\ VizQuiet
  /\ tf_q \in Quats
  /\ tf_t \in Translations
  /\ tf_T = <<>>
  /\ tf_Ti = <<>>
  /\ tf_pc = "new"

\* lines 67-69: a transform is built
MakeT ==
  /\ tf_pc = "new"
  /\ tf_T' = make_T(tf_t, tf_q)
  /\ tf_pc' = "made"
  /\ UNCHANGED <<tf_q, tf_t, tf_Ti>>
  /\ UNCHANGED <<shiftVars, aggVars, vizVars>>

\* line 70: and inverted
InvT ==
  /\ tf_pc = "made"
  /\ tf_Ti' = inv_T(tf_T)
  /\ tf_pc' = "inverted"
  /\ UNCHANGED <<tf_q, tf_t, tf_T>>
  /\ UNCHANGED <<shiftVars, aggVars, vizVars>>

TfNext ==
  \/ MakeT
  \/ InvT

TfSpec == TfInit /\ [][TfNext]_vars

(***************************************************************************)
(* Properties of the corrector.                                            *)
(***************************************************************************)
ShiftErrors == {"ValueError", "FileNotFoundError"}

\* the lidar rows of a record's sample_data.json
LidarRows(r) == SelectSeq(sdata[r], is_lidar_row)
\* the point files the rows of a record stand for
RecordFiles(r) ==
  { Resolve(r, norm_rel_path(LidarRows(r)[k])).path :
      k \in { j \in 1..Len(LidarRows(r)) : Resolve(r, norm_rel_path(LidarRows(r)[j])).found } }

\* the buffer with dz added to the third value of every point of the given width
ZShifted(buf, width, dz) ==
  [k \in 1..Len(buf) |-> IF k % width = 3 THEN buf[k] + dz ELSE buf[k]]

\* a run without --dry_run and --force
Plain(a) == ~a.dry_run /\ ~a.force

\* C1: when a run without --dry_run and --force has completed and a second run
\* with the same offset completes, the point files and the annotation tables are
\* what they were after the first run, every record the first run marked is
\* reported as skipped, and the second run wrote none of its files.
C1_SecondRunIsNoOp ==
  ( /\ pc = "idle" /\ outcome = "done" /\ Plain(args)
    /\ prev.outcome = "done" /\ Plain(prev.args)
    /\ prev.args.delta_z = args.delta_z )
  => /\ bins = start.bins
     /\ anns = start.anns
     /\ \A r \in prev.marked :
          /\ log[r] = {"SKIP"}
          /\ \A p \in DOMAIN bins : p[1] = RecName(r) => shifts[p] = 0

C1_Witness ==
  /\ pc = "idle" /\ outcome = "done" /\ Plain(args)
  /\ prev.outcome = "done" /\ Plain(prev.args)
  /\ prev.args.delta_z = 4000 /\ args.delta_z = 4000
  /\ prev.marked = Records
  /\ anns[1][1].translation.v = <<70000, -30000, 14000>>
  /\ FileA(1) \in DOMAIN bins /\ bins[FileA(1)][3] = 7000

\* C2: when a record's correction has completed (not a dry run), each point file
\* its lidar rows stand for holds the buffer it held when the run started with the
\* offset added once to every point's third value, and each annotation holds its
\* translation of the start of the run with the offset added once.
C2_OffsetAddedOnce ==
  \A r \in Records :
    "OK" \in log[r] =>
      /\ \A p \in RecordFiles(r) :
           bins[p] = ZShifted(start.bins[p], args.point_dim, args.delta_z)
      /\ anns[r] = ShiftedTable(start.anns[r], args.delta_z)

\* C3: when the run aborts on a point file that does not reshape to the point
\* width, the run has modified no file: no point file, no annotation table, no
\* marker.
C3_MalformedWritesNothing ==
  outcome = "ValueError" => Disk = start

\* C4: during and after a dry run the point files, the annotation tables and the
\* markers are what they were when the run started, whatever the other flags.
C4_DryRunPure ==
  (args.dry_run /\ outcome # "none") => Disk = start

C4_Witness ==
  /\ pc = "idle" /\ outcome = "done"
  /\ args.dry_run /\ args.force
  /\ counts.total_bins > 0 /\ counts.total_ann > 0
  /\ \E r \in Records : MarkerName(args.delta_z) \in markers[r]

\* C5: a marker written by the current run belongs to a record all of whose
\* lidar rows were resolved and rewritten and whose annotation table was saved
\* by this run; the record an aborted run stopped in has no marker of this run.
C5_MarkerLast ==
  /\ \A r \in Records :
       "MARKER" \in log[r] =>
         /\ \A k \in 1..Len(LidarRows(r)) :
              LET f == Resolve(r, norm_rel_path(LidarRows(r)[k]))
              IN  f.found /\ shifts[f.path] >= 1
         /\ "ANN_SAVED" \in log[r]
         /\ anns[r] = ShiftedTable(start.anns[r], args.delta_z)
  /\ \A r \in Records :
       (markers[r] # start.markers[r]) => "MARKER" \in log[r]
  /\ outcome \in ShiftErrors =>
       "MARKER" \notin log[rec] /\ markers[rec] = start.markers[rec]

C5_Witness ==
  /\ outcome = "ValueError" /\ rec = 2
  /\ "MARKER" \in log[1]
  /\ FileB(1) \in DOMAIN bins /\ shifts[FileB(1)] = 1
  /\ markers[2] = {}

\* C6: right after a record's correction (not a dry run) every annotation with
\* a 3-element translation has the offset added to the third component and
\* nothing else changed, every other annotation is unchanged, and the count
\* reported is the number of annotations with a 3-element translation.
C6_AnnotationShift ==
  (pc = "rec" /\ rec >= 2 /\ "OK" \in log[rec - 1]) =>
    LET old == start.anns[rec - 1]
        new == anns[rec - 1]
        good == { k \in 1..Len(old) :
                    old[k].translation.list /\ Len(old[k].translation.v) = 3 }
    IN  /\ Len(new) = Len(old)
        /\ \A k \in 1..Len(old) :
             IF k \in good
             THEN /\ new[k].translation.list
                  /\ new[k].translation.v =
                       << old[k].translation.v[1], old[k].translation.v[2],
                          old[k].translation.v[3] + args.delta_z >>
                  /\ new[k].rotation = old[k].rotation
                  /\ new[k].size = old[k].size
             ELSE new[k] = old[k]
        /\ counts.ann_count = Cardinality(good)

C6_Witness ==
  /\ pc = "rec" /\ rec = 2 /\ "OK" \in log[1]
  /\ args.delta_z = 4000
  /\ anns[1][1].translation.v = <<70000, -30000, 14000>>
  /\ anns[1][2].translation.v = <<50000, 20000>>
  /\ ~anns[1][3].translation.list
  /\ counts.ann_count = 1

\* C7: a row is served by the file at its path below the record if there is one,
\* else by the file at its path below the corpus root if there is one, else by
\* the only match of its basename inside the record; with no match or several
\* the run fails with FileNotFoundError and the step changes no point file.
C7_Resolution ==
  [][ pc = "rows" =>
        LET fn == norm_rel_path(lidar_entries[row])
            inRecord == <<RecName(rec)>> \o Components(fn)
            inCorpus == Components(fn)
            matches == { p \in Entries : Len(p) >= 2 /\ p[1] = RecName(rec)
                                          /\ Last(p) = Last(fn) }
            Uses(p) == /\ outcome' # "FileNotFoundError"
                       /\ \A q \in DOMAIN bins \ {p} : bins'[q] = bins[q]
                       /\ (~args.dry_run /\ outcome' = "running") => bins'[p] # bins[p]
        IN  IF inRecord \in DOMAIN bins THEN Uses(inRecord)
            ELSE IF inCorpus \in DOMAIN bins THEN Uses(inCorpus)
            ELSE IF Cardinality(matches) = 1 /\ matches \subseteq DOMAIN bins
                 THEN \A p \in matches : Uses(p)
                 ELSE outcome' = "FileNotFoundError" /\ bins' = bins
    ]_vars

C7_Witness ==
  /\ pc = "ann" /\ rec = 1
  /\ sdata[1] = <<RowMoved>>
  /\ FileA(1) \notin DOMAIN bins
  /\ FileB(1) \in DOMAIN bins /\ shifts[FileB(1)] = 1

\* the records that have all their tables
Loadable == { r \in Records : tables[r] = "ok" }
\* the point files in the directory of a record
OwnFiles(r) == { p \in DOMAIN bins : p[1] = RecName(r) }

\* C13: when a run with offset +d (not a dry run) has corrected every record
\* that has its tables, and a run with offset -d and --force completes after it,
\* every point buffer and every annotation table is what it was before the
\* first run; the second run skipped none of these records.
C13_RoundTrip ==
  ( /\ pc = "idle" /\ outcome = "done" /\ ~args.dry_run /\ args.force
    /\ prev.outcome = "done" /\ ~prev.args.dry_run
    /\ args.delta_z = 0 - prev.args.delta_z
    /\ prev.marked = Loadable )
  => /\ bins = prev.start.bins
     /\ anns = prev.start.anns
     /\ \A r \in Loadable : "SKIP" \notin log[r] /\ "OK" \in log[r]

C13_Witness ==
  /\ pc = "idle" /\ outcome = "done" /\ ~args.dry_run /\ args.force
  /\ prev.outcome = "done" /\ ~prev.args.dry_run
  /\ prev.args.delta_z = 4000 /\ args.delta_z = 0 - 4000
  /\ prev.marked = Records
  /\ MarkerName(4000) \in markers[1] /\ MarkerName(0 - 4000) \in markers[1]
  /\ FileA(1) \in DOMAIN bins /\ shifts[FileA(1)] = 1 /\ bins[FileA(1)] = Buffer(5)
  /\ start.bins[FileA(1)][3] = 7000
  /\ anns[1][1].translation.v = <<70000, -30000, 10000>>
  /\ start.anns[1][1].translation.v = <<70000, -30000, 14000>>

\* C15: when a run without --force was interrupted or aborted and a later run
\* with the same offset completes, every record the first run had finished is
\* skipped by the later run, and its annotations and each of its point files
\* that its lidar rows stand for hold the offset exactly once.
C15_ResumeAtBoundary ==
  ( /\ pc = "idle" /\ outcome = "done" /\ Plain(args)
    /\ prev.outcome \in ShiftErrors \cup {"KeyboardInterrupt"} /\ Plain(prev.args)
    /\ prev.args.delta_z = args.delta_z )
  => \A r \in prev.marked :
       /\ log[r] = {"SKIP"}
       /\ anns[r] = ShiftedTable(prev.start.anns[r], args.delta_z)
       /\ \A p \in RecordFiles(r) \cap OwnFiles(r) :
            bins[p] = ZShifted(prev.start.bins[p], args.point_dim, args.delta_z)

\* C16: in the second run of a session a record is skipped exactly when
\* --force is off and the first run wrote its marker for exactly the same
\* offset; a marker of another offset never makes the run skip the record.
C16_MarkerExactOffset ==
  \A r \in Records :
    (runs = 2 /\ rec > r) =>
      ( "SKIP" \in log[r] <=>
          (~args.force /\ r \in prev.marked /\ prev.args.delta_z = args.delta_z) )

\* C17: a record that lacks the version directory or one of the two tables has
\* none of its point files, its annotation table or its markers changed by the
\* run; once the run is past it, it has been reported with a warning and
\* nothing else.
C17_MissingTablesUntouched ==
  \A r \in Records :
    (tables[r] # "ok" /\ outcome # "none") =>
      /\ \A p \in OwnFiles(r) : bins[p] = start.bins[p]
      /\ anns[r] = start.anns[r]
      /\ markers[r] = start.markers[r]
      /\ (rec > r /\ ~(Marker \in markers[r] /\ ~args.force)) => log[r] = {"WARN_MISSING"}

\* C19: a record whose sample_data.json holds a lidar point-cloud row that the
\* filename tests do not pick gets a warning when it is processed.
C19_MissedRowsWarned ==
  \A r \in Records :
    ( /\ log[r] \cap {"REC", "WARN_NO_LIDAR"} # {}
      /\ \E k \in 1..Len(sdata[r]) :
           sdata[r][k] \in PointCloudRows /\ ~is_lidar_row(sdata[r][k]) )
    => \E w \in log[r] : w \in {"WARN_NO_LIDAR", "WARN_MISSED_LIDAR"}

\* C20: no step of the corrector changes sample_data.json, sample.json,
\* ego_pose.json or calibrated_sensor.json, creates or removes a point file or a
\* table; a step changes at most the point file the current lidar row resolves
\* to, or the annotation table of the current record, or adds the marker of the
\* current offset to the current record.
C20_Frame ==
  [][ /\ sdata' = sdata
      /\ others' = others
      /\ tables' = tables
      /\ DOMAIN bins' = DOMAIN bins
      /\ \A p \in DOMAIN bins :
           bins'[p] # bins[p] =>
             pc = "rows" /\ p = Resolve(rec, norm_rel_path(lidar_entries[row])).path
      /\ \A r \in Records :
           /\ anns'[r] # anns[r] => pc = "ann" /\ r = rec
           /\ markers'[r] # markers[r] =>
                pc = "marker" /\ r = rec /\ markers'[r] = markers[r] \cup {Marker}
    ]_vars

C20_Witness ==
  /\ pc = "idle" /\ outcome = "done" /\ runs = 2
  /\ prev.outcome = "done"
  /\ bins # start.bins /\ anns # start.anns /\ markers # start.markers
  /\ Cardinality(markers[1]) = 2
  /\ others = [r \in Records |-> OtherTables(r)]

(***************************************************************************)
(* Properties of the aggregator.                                           *)
(***************************************************************************)
\* the record directories in lexicographic order of their names
InNameOrder ==
  CHOOSE s \in Listings(subdirs) : \A i, j \in 1..Len(s) : i < j => LexLess(s[i], s[j])

\* the namespace segment of a record: carla/nusc_like_multi/<record name>
Namespace(sfx) == <<"carla", "/", "nusc_like_multi", "/", DirName(sfx)>>

\* the descriptors of a record with the namespace segment put before each path
Prefixed(sfx) ==
  [k \in 1..Len(built[sfx].infos) |->
     [built[sfx].infos[k] EXCEPT !.lidar_path = Namespace(sfx) \o <<"/">> \o @]]

RECURSIVE Concatenation(_)
Concatenation(names) ==
  IF names = <<>> THEN <<>>
  ELSE Prefixed(Head(names)) \o Concatenation(Tail(names))

\* C8: the corpus a completed run persists is the concatenation, in
\* lexicographic order of record name, of each record's descriptors in their
\* order, each lidar_path being the record-local path with the record's
\* namespace segment before it; a second run on the same records persists the
\* same corpus.
C8_OrderedPrefixedCorpus ==
  agg_outcome = "done" =>
    /\ out.exists
    /\ out.infos = Concatenation(InNameOrder)
    /\ out_start.exists => out = out_start

\* C9: in the corpus a completed run persists, the paths of descriptors of
\* different records differ, every path starts with its record's namespace
\* segment, and no path holds a backslash or the root marker of the local path.
C9_RewriteInjective ==
  agg_outcome = "done" =>
    \A i, j \in 1..Len(out.infos) :
      /\ out.infos[i].token[1] # out.infos[j].token[1]
           => out.infos[i].lidar_path # out.infos[j].lidar_path
      /\ IsPrefix(Namespace(out.infos[i].token[1]) \o <<"/">>, out.infos[i].lidar_path)
      /\ \A k \in 1..Len(out.infos[i].lidar_path) : out.infos[i].lidar_path[k] # "\\"

\* C10: the output file is written only when every discovered record has been
\* built and rewritten; a run that fails on a record leaves the output file as
\* it was when the run started.
C10_AllOrNothing ==
  /\ wrote =>
       /\ agg_i = Len(record_dirs) + 1
       /\ \A k \in 1..Len(record_dirs) : ~built[record_dirs[k]].fails
       /\ \A sfx \in subdirs : \E k \in 1..Len(record_dirs) : record_dirs[k] = sfx
  /\ agg_outcome \in {"error", "AssertionError"} => ~wrote /\ out = out_start
  /\ out # out_start => wrote

C10_Witness ==
  /\ agg_outcome = "error"
  /\ agg_i = 2
  /\ all_infos # <<>>
  /\ ~out.exists

(***************************************************************************)
(* Properties of the replay loop.                                          *)
(***************************************************************************)
\* the cursor i brought into 0..count-1
Saturated(i, count) == IF i < 0 THEN 0 ELSE IF i > count - 1 THEN count - 1 ELSE i

\* C11: for a record with at least one sample, after the initial render and
\* after every key event the cursor is within 0..count-1; after the initial
\* render it is the starting index saturated, after a key-down (or a callback
\* without an action) it is the previous cursor plus one (right) or minus one
\* (left) saturated, after any other key action it is the previous cursor; and
\* the render raises only when the point file of the frame is not there.
C11_SaturatingCursor ==
  (Len(frames) >= 1 /\ viz_pc \in {"run", "crashed"}) =>
    LET count == Len(frames)
        down == last.action = NoAction \/ last.action = 1
    IN  /\ 0 <= idx /\ idx <= count - 1
        /\ last.key = "none" => idx = Saturated(last.before, count)
        /\ (last.key = "right" /\ down) => idx = Saturated(last.before + 1, count)
        /\ (last.key = "left" /\ down) => idx = Saturated(last.before - 1, count)
        /\ (last.key # "none" /\ ~down) => idx = last.before
        /\ viz_pc = "crashed" => ~frames[idx + 1].file.present

C11_Witness ==
  /\ viz_pc = "run" /\ Len(frames) >= 2
  /\ last.key = "right" /\ last.action = 1
  /\ last.before = Len(frames) - 1
  /\ idx = Len(frames) - 1
  /\ renders >= 3

\* C12: the view has been reset once as soon as one render has completed and
\* never before, and the only render during which it was reset is the first.
C12_ResetOnlyOnce ==
  /\ renders = 0 => resets = 0 /\ reset_at = {}
  /\ renders >= 1 => resets = 1 /\ reset_at = {1}

C12_Witness ==
  /\ renders >= 3
  /\ resets = 1
  /\ title = <<"Error loading frame">>
  /\ last.key = "left" /\ last.action = 1

\* C14: for every transform T that make_T builds, inv_T(T) @ T and
\* T @ inv_T(T) are both the 4x4 identity.
C14_RigidInverse ==
  tf_pc = "inverted" =>
    /\ MatMul(tf_Ti, tf_T) = Eye4
    /\ MatMul(tf_T, tf_Ti) = Eye4

C14_Witness ==
  /\ tf_pc = "inverted"
  /\ tf_q = <<1, 1, 0, 0>>
  /\ tf_t = <<2, 0 - 1, 1>>
  /\ tf_T = << <<1, 0, 0, 2>>, <<0, 0, 0 - 1, 0 - 1>>, <<0, 1, 0, 1>>, <<0, 0, 0, 1>> >>
  /\ tf_Ti = << <<1, 0, 0, 0 - 2>>, <<0, 0, 1, 0 - 1>>, <<0, 0 - 1, 0, 0 - 1>>, <<0, 0, 0, 1>> >>

\* C18: after a render of a frame whose point file holds N >= 1 points written
\* with W values each (W 4 or 5), the cloud on display has N rows of width W;
\* a file whose size is divisible by neither 4 nor 5 gives the error frame
\* with no boxes, and no exception.
C18_WidthDetected ==
  (viz_pc = "run" /\ renders >= 1) =>
    LET file == frames[idx + 1].file
    IN  /\ (file.written \in {4, 5} /\ file.points >= 1) =>
             pcd = [rows |-> file.points, width |-> file.written]
        /\ (file.size % 4 # 0 /\ file.size % 5 # 0) =>
             title = <<"Error loading frame">> /\ box_geoms = 0

====
